---- MODULE Spec2Model ----
(***************************************************************************)
(* Model of the lamsal-kit command line utility: the version parser and    *)
(* comparator (src/cli/parse-version.ts), the dependency conflict detector *)
(* (getConflictingDeps) and the memoized embeddings index with its vector  *)
(* search (initEmbeddings / searchVectors).                                *)
(*                                                                         *)
(* JavaScript strings are modelled as sequences of one-character strings,  *)
(* so that matching and splitting are computed character by character.     *)
(* JavaScript values of different types are modelled as records with a     *)
(* "kind" field.                                                           *)
(***************************************************************************)
EXTENDS Integers, Sequences, FiniteSets, TLC

VARIABLES
    version,      \* parseVersion: the argument
    parsed,       \* parseVersion: the returned value, Pending before the call
    cmpCurrent,   \* compareVersions: the argument current
    cmpNext,      \* compareVersions: the argument next
    cmpResult,    \* compareVersions: the returned value, Pending before the call
    config,       \* getConflictingDeps: the registry entry
    packageJson,  \* getConflictingDeps: the manifest
    key,          \* getConflictingDeps: the field of the entry that is checked
    conflicts,    \* getConflictingDeps: the outcome, Pending before the call
    initPromise,  \* the module variable initPromise: 0 for null, else the
                  \* position in fetches of the promise it holds
    fetches,      \* the fetches of the embeddings index issued so far, each
                  \* with the promise chained on it
    calls,        \* per caller, the initEmbeddings or searchVectors call it
                  \* is in
    callsMade,    \* number of calls started
    scoreIndex,   \* searchVectors: the loaded index (indexedData)
    scoreQuery,   \* searchVectors: the embedding of the query (queryVector)
    scoreTopK,    \* searchVectors: the argument topK
    scoreResults, \* searchVectors: the returned list, Pending before the call
    listeners,    \* typed event emitter: per event, the listeners of the
                  \* wrapped EventEmitter in registration order
    aborted,      \* the abort signals that are in the aborted state
    abortHandlers, \* per signal, the "abort" handlers added by on, each to
                  \* remove one listener of one event
    lastEmit,     \* the event and the listeners invoked by the latest emit
    registered,   \* every on call made so far: event, listener and signal
    removed,      \* the (event, listener) pairs whose only registration was
                  \* removed by off and that on has not registered since
    emitterOps,   \* number of calls made on the emitter and the signals
    listSchema,   \* parseList: the schema
    listInput,    \* parseList: the argument list
    listOutput    \* parseList: the returned list, Pending before the call

parseVars == <<version, parsed>>
compareVars == <<cmpCurrent, cmpNext, cmpResult>>
conflictVars == <<config, packageJson, key, conflicts>>

searchVars == <<initPromise, fetches, calls, callsMade>>
scoreVars == <<scoreIndex, scoreQuery, scoreTopK, scoreResults>>
emitterVars == <<listeners, aborted, abortHandlers, lastEmit, registered,
                 removed, emitterOps>>
listVars == <<listSchema, listInput, listOutput>>
restVars == <<scoreVars, emitterVars, listVars>>

vars == <<parseVars, compareVars, conflictVars, searchVars, restVars>>

\* The value of a variable of a component that a specification does not run.
Idle == [kind |-> "idle"]

\* The value of a result before the call has returned.
Pending == [kind |-> "pending"]

\* The variables of a component while another component runs.
ParseIdle == version = Idle /\ parsed = Idle
CompareIdle == cmpCurrent = Idle /\ cmpNext = Idle /\ cmpResult = Idle
ConflictsIdle ==
    config = Idle /\ packageJson = Idle /\ key = Idle /\ conflicts = Idle
SearchIdle ==
    initPromise = Idle /\ fetches = Idle /\ calls = Idle /\ callsMade = Idle
ScoreIdle ==
    /\ scoreIndex = Idle /\ scoreQuery = Idle /\ scoreTopK = Idle
    /\ scoreResults = Idle
EmitterIdle ==
    /\ listeners = Idle /\ aborted = Idle /\ abortHandlers = Idle
    /\ lastEmit = Idle /\ registered = Idle /\ removed = Idle
    /\ emitterOps = Idle
ListIdle == listSchema = Idle /\ listInput = Idle /\ listOutput = Idle

\* JavaScript's undefined.
Undefined == [kind |-> "undefined"]

----------------------------------------------------------------------------
(* Bounds of the model *)

\* Longest text enumerated over Alphabet as an argument of parseVersion.
MaxTextLen == 5

\* Largest version component of the structured specs given to
\* compareVersions.
MaxComponent == 2

\* Largest version component of the specs whose text is parsed back
\* (two decimal digits are needed to separate a number from its last digit).
MaxRoundTrip == 11

\* Longest dependency list of the entry given to getConflictingDeps.
MaxDeps == 2

\* Number of calls of initEmbeddings and searchVectors in one process run.
MaxCalls == 4

\* Largest number of items of the index given to the scoring of
\* searchVectors, and longest vector of an item or of the query.
MaxIndexLen == 2
MaxVecLen == 2

\* Number of calls of on, off, emit and abort on one typed event emitter.
MaxOps == 4

\* Longest list given to parseList.
MaxListLen == 2

----------------------------------------------------------------------------
(* Strings *)

DigitChars == <<"0", "1", "2", "3", "4", "5", "6", "7", "8", "9">>

IsDigit(c) == \E i \in 1..Len(DigitChars) : DigitChars[i] = c

\* Number(c) for a one-digit string c.
DigitValue(c) == (CHOOSE i \in 1..Len(DigitChars) : DigitChars[i] = c) - 1

Min(S) == CHOOSE x \in S : \A y \in S : x <= y

STR_latest == <<"l", "a", "t", "e", "s", "t">>
STR_garbage == <<"g", "a", "r", "b", "a", "g", "e">>
STR_constructor == <<"c", "o", "n", "s", "t", "r", "u", "c", "t", "o", "r">>
STR_toString == <<"t", "o", "S", "t", "r", "i", "n", "g">>
STR_valueOf == <<"v", "a", "l", "u", "e", "O", "f">>

STR_hasOwnProperty ==
    <<"h", "a", "s", "O", "w", "n", "P", "r", "o", "p", "e", "r", "t", "y">>
STR_isPrototypeOf ==
    <<"i", "s", "P", "r", "o", "t", "o", "t", "y", "p", "e", "O", "f">>
STR_propertyIsEnumerable ==
    <<"p", "r", "o", "p", "e", "r", "t", "y", "I", "s">>
        \o <<"E", "n", "u", "m", "e", "r", "a", "b", "l", "e">>
STR_toLocaleString ==
    <<"t", "o", "L", "o", "c", "a", "l", "e", "S", "t", "r", "i", "n", "g">>
STR_defineGetter ==
    <<"_", "_", "d", "e", "f", "i", "n", "e">>
        \o <<"G", "e", "t", "t", "e", "r", "_", "_">>
STR_defineSetter ==
    <<"_", "_", "d", "e", "f", "i", "n", "e">>
        \o <<"S", "e", "t", "t", "e", "r", "_", "_">>
STR_lookupGetter ==
    <<"_", "_", "l", "o", "o", "k", "u", "p">>
        \o <<"G", "e", "t", "t", "e", "r", "_", "_">>
STR_lookupSetter ==
    <<"_", "_", "l", "o", "o", "k", "u", "p">>
        \o <<"S", "e", "t", "t", "e", "r", "_", "_">>
STR_proto == <<"_", "_", "p", "r", "o", "t", "o", "_", "_">>

\* The names of the functions every object literal inherits from
\* Object.prototype: indexing an object literal with one of them yields the
\* function, not undefined.
ObjectPrototypeFunctions ==
    {STR_constructor, STR_toString, STR_valueOf, STR_hasOwnProperty,
     STR_isPrototypeOf, STR_propertyIsEnumerable, STR_toLocaleString,
     STR_defineGetter, STR_defineSetter, STR_lookupGetter, STR_lookupSetter}

\* The names an object literal inherits: the functions, and __proto__, which
\* yields Object.prototype itself.
ObjectPrototypeKeys == ObjectPrototypeFunctions \cup {STR_proto}

\* The decimal text of a natural number.
RECURSIVE DecimalText(_)
DecimalText(n) ==
    IF n < 10 THEN <<DigitChars[n + 1]>>
    ELSE DecimalText(n \div 10) \o <<DigitChars[(n % 10) + 1]>>

----------------------------------------------------------------------------
(* parseVersion *)

Latest == [kind |-> "latest"]

Modifiers == {"patch", "minor", "major"}

VersionRecord(modifier, major, minor, patch) ==
    [kind |-> "spec", modifier |-> modifier,
     major |-> major, minor |-> minor, patch |-> patch]

\* First position at or after i that holds a digit, Len(s) + 1 if none:
\* where the greedy \D* started at i must stop for (\d)+ to follow.
SkipNonDigits(s, i) ==
    Min({j \in i..(Len(s) + 1) : j = Len(s) + 1 \/ IsDigit(s[j])})

\* First position at or after i that holds no digit, Len(s) + 1 if none.
SkipDigits(s, i) ==
    Min({j \in i..(Len(s) + 1) : j = Len(s) + 1 \/ ~IsDigit(s[j])})

\* The match of /(\D*)(\d)+\.(\d)+\.(\d)+.*/ anchored at position i.
\* A repeated group (\d)+ captures its last repetition: the last digit.
MatchAt(s, i) ==
    LET p1 == SkipNonDigits(s, i)
        d1 == SkipDigits(s, p1)
        d2 == SkipDigits(s, d1 + 1)
        d3 == SkipDigits(s, d2 + 1)
    IN  IF /\ d1 > p1 /\ d1 <= Len(s) /\ s[d1] = "."
           /\ d2 > d1 + 1 /\ d2 <= Len(s) /\ s[d2] = "."
           /\ d3 > d2 + 1
        THEN [matched |-> TRUE, prefix |-> SubSeq(s, i, p1 - 1),
              major |-> s[d1 - 1], minor |-> s[d2 - 1], patch |-> s[d3 - 1]]
        ELSE [matched |-> FALSE]

\* String.prototype.match without the g flag: the leftmost match.
VersionMatch(s) ==
    LET starts == {i \in 1..Len(s) : MatchAt(s, i).matched}
    IN  IF starts = {} THEN [matched |-> FALSE] ELSE MatchAt(s, Min(starts))

\* { "~": "patch", "^": "minor" }[prefix] ?? "major"
ModifierOf(prefix) ==
    IF prefix = <<"~">> THEN "patch"
    ELSE IF prefix = <<"^">> THEN "minor"
    ELSE IF prefix \in ObjectPrototypeFunctions THEN "inherited"
    ELSE IF prefix = STR_proto THEN "Object.prototype"
    ELSE "major"

\* safeParse without the check of the modifier against the enum.
SafeParseVersionAnyModifier(modifier, major, minor, patch) ==
    VersionRecord(modifier, DigitValue(major), DigitValue(minor),
                  DigitValue(patch))

\* VersionSchema.safeParse(input).data: the record with its three components
\* coerced to numbers, undefined when the modifier is not in the enum.
SafeParseVersion(modifier, major, minor, patch) ==
    IF modifier \in Modifiers
    THEN VersionRecord(modifier, DigitValue(major), DigitValue(minor),
                       DigitValue(patch))
    ELSE Undefined

parseVersion(text) ==
    IF text = STR_latest THEN Latest
    ELSE LET m == VersionMatch(text)
         IN  IF ~m.matched THEN Undefined
             ELSE SafeParseVersion(ModifierOf(m.prefix), m.major, m.minor,
                                   m.patch)

----------------------------------------------------------------------------
(* compareVersions *)

Number(n) == [kind |-> "number", value |-> n]

\* compareVersions with the two sentinel tests exchanged.
compareVersionsSwappedSentinel(current, next) ==
    IF current = Latest \/ next = Latest
    THEN IF current # Latest THEN -1
         ELSE IF next # Latest THEN 1
         ELSE 0
    ELSE LET majorDiff == next.major - current.major
             minorDiff == next.minor - current.minor
         IN  IF majorDiff # 0 \/ current.modifier = "major" THEN majorDiff
             ELSE IF minorDiff # 0 \/ current.modifier = "minor" THEN minorDiff
             ELSE next.patch - current.patch

\* compareVersions reading the modifier of next instead of current.
compareVersionsNextModifier(current, next) ==
    IF current = Latest \/ next = Latest
    THEN IF next # Latest THEN -1
         ELSE IF current # Latest THEN 1
         ELSE 0
    ELSE LET majorDiff == next.major - current.major
             minorDiff == next.minor - current.minor
         IN  IF majorDiff # 0 \/ next.modifier = "major" THEN majorDiff
             ELSE IF minorDiff # 0 \/ next.modifier = "minor" THEN minorDiff
             ELSE next.patch - current.patch

compareVersions(current, next) ==
    IF current = Latest \/ next = Latest
    THEN IF next # Latest THEN -1
         ELSE IF current # Latest THEN 1
         ELSE 0
    ELSE LET majorDiff == next.major - current.major
             minorDiff == next.minor - current.minor
         IN  IF majorDiff # 0 \/ current.modifier = "major" THEN majorDiff
             ELSE IF minorDiff # 0 \/ current.modifier = "minor" THEN minorDiff
             ELSE next.patch - current.patch

----------------------------------------------------------------------------
(* getConflictingDeps *)

Str(chars) == [kind |-> "string", chars |-> chars]

Array(items) == [kind |-> "array", items |-> items]

Object(props) == [kind |-> "object", props |-> props]

\* A function inherited from Object.prototype.
InheritedFunction == [kind |-> "function"]

\* Object.prototype, the value of the inherited property __proto__.
ObjectPrototype ==
    Object([n \in ObjectPrototypeFunctions |-> InheritedFunction])

\* The outcome of a call that throws a TypeError.
Thrown == [kind |-> "throw"]

\* String.prototype.split(sep) for a one-character separator.
RECURSIVE Split(_, _)
Split(s, sep) ==
    LET hits == {i \in 1..Len(s) : s[i] = sep}
    IN  IF hits = {} THEN <<s>>
        ELSE LET i == Min(hits)
             IN  <<SubSeq(s, 1, i - 1)>> \o Split(SubSeq(s, i + 1, Len(s)), sep)

\* const [name, version = "latest"] = curr.split("@")
TokenName(curr) == Split(curr, "@")[1]

TokenVersion(curr) ==
    LET parts == Split(curr, "@")
    IN  IF Len(parts) >= 2 THEN parts[2] ELSE STR_latest

\* field of a record of the entry or of the manifest
Field(rec, k) == IF k = "dependencies" THEN rec.dependencies
                 ELSE rec.devDependencies

HasOwn(obj, name) == obj.kind = "object" /\ name \in DOMAIN obj.props

\* { ...packageJson.dependencies, ...packageJson.devDependencies }[name]
InstalledVersion(manifest, name) ==
    IF HasOwn(manifest.devDependencies, name)
    THEN Str(manifest.devDependencies.props[name])
    ELSE IF HasOwn(manifest.dependencies, name)
    THEN Str(manifest.dependencies.props[name])
    ELSE IF name \in ObjectPrototypeFunctions THEN InheritedFunction
    ELSE IF name = STR_proto THEN ObjectPrototype
    ELSE Undefined

\* !currentVersion
Falsy(v) == v = Undefined \/ v = Str(<<>>)

ConflictRecord(name, current, next) ==
    [name |-> name, current |-> current, next |-> next]

\* The reduce callback with the record put in front of the accumulator.
ReduceStepUnshift(acc, curr, manifest) ==
    LET name == TokenName(curr)
        tokenVersion == TokenVersion(curr)
        currentVersion == InstalledVersion(manifest, name)
        pushed == Array(<<ConflictRecord(name, currentVersion,
                                         tokenVersion)>> \o acc)
    IN  IF Falsy(currentVersion) THEN Array(acc)
        ELSE IF tokenVersion = STR_latest THEN pushed
        ELSE IF currentVersion.kind # "string" THEN Thrown
        ELSE LET currentMajor == Split(currentVersion.chars, ".")[1]
                 nextMajor == Split(tokenVersion, ".")[1]
             IN  IF currentMajor # nextMajor THEN pushed ELSE Array(acc)

\* The body of the reduce callback: the accumulator after the token curr,
\* or Thrown.
ReduceStep(acc, curr, manifest) ==
    LET name == TokenName(curr)
        tokenVersion == TokenVersion(curr)
        currentVersion == InstalledVersion(manifest, name)
        pushed == Array(Append(acc, ConflictRecord(name, currentVersion,
                                                   tokenVersion)))
    IN  IF Falsy(currentVersion) THEN Array(acc)
        ELSE IF tokenVersion = STR_latest THEN pushed
        ELSE IF currentVersion.kind # "string" THEN Thrown
        ELSE LET currentMajor == Split(currentVersion.chars, ".")[1]
                 nextMajor == Split(tokenVersion, ".")[1]
             IN  IF currentMajor # nextMajor THEN pushed ELSE Array(acc)

\* Array.prototype.reduce over the tokens from position i on; an exception
\* thrown by the callback ends the call.
RECURSIVE Reduce(_, _, _, _)
Reduce(acc, list, i, manifest) ==
    IF i > Len(list) THEN Array(acc)
    ELSE LET step == ReduceStep(acc, list[i], manifest)
         IN  IF step = Thrown THEN Thrown
             ELSE Reduce(step.items, list, i + 1, manifest)

\* config[key]?.reduce(...)
getConflictingDeps(entry, manifest, k) ==
    IF Field(entry, k) = Undefined THEN Undefined
    ELSE Reduce(<<>>, Field(entry, k).items, 1, manifest)

----------------------------------------------------------------------------
(* Inputs *)

Alphabet == {"~", "^", "v", "1", "2", "."}

RECURSIVE TextsOfLen(_)
TextsOfLen(n) ==
    IF n = 0 THEN {<<>>}
    ELSE {Append(t, c) : t \in TextsOfLen(n - 1), c \in Alphabet}

BoundedTexts == UNION {TextsOfLen(n) : n \in 0..MaxTextLen}

\* The text of a structured spec: "~" for patch, "^" for minor, no prefix
\* for major, then major.minor.patch in decimal.
PrefixOf(modifier) ==
    IF modifier = "patch" THEN <<"~">>
    ELSE IF modifier = "minor" THEN <<"^">>
    ELSE <<>>

Stringify(s) ==
    PrefixOf(s.modifier) \o DecimalText(s.major) \o <<".">>
        \o DecimalText(s.minor) \o <<".">> \o DecimalText(s.patch)

SpecsUpTo(n) ==
    {VersionRecord(m, a, b, c) : m \in Modifiers, a \in 0..n, b \in 0..n,
                                 c \in 0..n}

\* Specs with one component ranging to MaxRoundTrip, the others small.
RoundTripSpecs ==
    {VersionRecord(m, a, b, c) : m \in Modifiers, a \in 0..MaxRoundTrip,
                                 b \in {0, MaxRoundTrip}, c \in {0, 3}}

FixtureTexts ==
    {STR_latest, STR_garbage,
     <<"^", "1", ".", "2", ".", "3">>,
     <<"~", "0", ".", "0", ".", "1">>,
     <<"^", "0", ".", "0", ".", "1">>,
     <<"1", ".", "2", ".", "3">>,
     <<"1", ".", "2", ".", "3", "-", "r", "c">>,
     <<">", "=", "1", ".", "2", ".", "3">>,
     STR_constructor \o <<"1", ".", "2", ".", "3">>,
     STR_toString \o <<"1", ".", "2", ".", "3">>,
     STR_hasOwnProperty \o <<"1", ".", "2", ".", "3">>,
     STR_proto \o <<"1", ".", "2", ".", "3">>}

VersionTexts ==
    BoundedTexts \cup FixtureTexts \cup {Stringify(s) : s \in RoundTripSpecs}

Versions == {Latest} \cup SpecsUpTo(MaxComponent)

----------------------------------------------------------------------------
(* The parser: one call of parseVersion on a text *)

InitParse ==
    /\ version \in VersionTexts
    /\ parsed = Pending
    /\ cmpCurrent = Idle /\ cmpNext = Idle /\ cmpResult = Idle
    /\ config = Idle /\ packageJson = Idle /\ key = Idle /\ conflicts = Idle
    /\ initPromise = Idle /\ fetches = Idle /\ calls = Idle
    /\ callsMade = Idle
    /\ ScoreIdle /\ EmitterIdle /\ ListIdle

ParseVersion ==
    /\ parsed = Pending
    /\ parsed' = parseVersion(version)
    /\ UNCHANGED <<version, compareVars, conflictVars, searchVars,
                   restVars>>

NextParse == ParseVersion

SpecParse == InitParse /\ [][NextParse]_vars

----------------------------------------------------------------------------
(* The comparator: one call of compareVersions on two versions *)

InitCompare ==
    /\ cmpCurrent \in Versions
    /\ cmpNext \in Versions
    /\ cmpResult = Pending
    /\ version = Idle /\ parsed = Idle
    /\ config = Idle /\ packageJson = Idle /\ key = Idle /\ conflicts = Idle
    /\ initPromise = Idle /\ fetches = Idle /\ calls = Idle
    /\ callsMade = Idle
    /\ ScoreIdle /\ EmitterIdle /\ ListIdle

CompareVersions ==
    /\ cmpResult = Pending
    /\ cmpResult' = Number(compareVersions(cmpCurrent, cmpNext))
    /\ UNCHANGED <<parseVars, cmpCurrent, cmpNext, conflictVars, searchVars,
                   restVars>>

NextCompare == CompareVersions

SpecCompare == InitCompare /\ [][NextCompare]_vars

----------------------------------------------------------------------------
(* The conflict detector: one call of getConflictingDeps *)

STR_a == <<"a">>
STR_scoped == <<"@", "s", "/", "a">>
STR_react == <<"r", "e", "a", "c", "t">>
STR_malformed == <<"x">>
STR_1_0_0 == <<"1", ".", "0", ".", "0">>
STR_2_0_0 == <<"2", ".", "0", ".", "0">>
STR_caret_1_0_0 == <<"^", "1", ".", "0", ".", "0">>
STR_caret_18_0_0 == <<"^", "1", "8", ".", "0", ".", "0">>
STR_17_0_2 == <<"1", "7", ".", "0", ".", "2">>

\* "<packageName>@<versionSpec>"
Token(name, versionSpec) == name \o <<"@">> \o versionSpec

\* The package names and version specs the tokens of the entry are built from.
PackageNames == {STR_a, STR_scoped, STR_constructor, STR_proto, STR_react}

VersionSpecs ==
    {STR_latest, STR_1_0_0, STR_2_0_0, STR_caret_1_0_0, STR_caret_18_0_0,
     STR_malformed}

DependencyTokens ==
    {STR_a,
     Token(STR_a, STR_latest),
     Token(STR_a, STR_2_0_0),
     Token(STR_a, STR_caret_1_0_0),
     Token(STR_a, STR_malformed),
     Token(STR_scoped, STR_2_0_0),
     Token(STR_constructor, STR_1_0_0),
     Token(STR_proto, STR_latest),
     Token(STR_react, STR_caret_18_0_0)}

RECURSIVE ListsOfLen(_)
ListsOfLen(n) ==
    IF n = 0 THEN {<<>>}
    ELSE {Append(l, t) : l \in ListsOfLen(n - 1), t \in DependencyTokens}

DependencyLists == UNION {ListsOfLen(n) : n \in 0..MaxDeps}

\* An optional dependency list of the entry.
OptionalLists == {Undefined} \cup {Array(l) : l \in DependencyLists}

EmptyProps == [n \in {} |-> <<>>]

ManifestDependencies ==
    {Undefined,
     Object(EmptyProps),
     Object([n \in {STR_a} |-> STR_1_0_0]),
     Object([n \in {STR_a} |-> STR_2_0_0]),
     Object([n \in {STR_a} |-> STR_malformed]),
     Object([n \in {STR_a} |-> <<>>]),
     Object([n \in {STR_scoped} |-> STR_1_0_0]),
     Object([n \in {STR_react} |-> STR_17_0_2]),
     Object([n \in {STR_a, STR_scoped} |-> STR_1_0_0])}

ManifestDevDependencies ==
    {Undefined,
     Object([n \in {STR_a} |-> STR_2_0_0]),
     Object([n \in {STR_a} |-> STR_caret_1_0_0])}

\* The list under the field that is not checked.
OtherLists == {Undefined, Array(<<Token(STR_a, STR_latest)>>)}

InitConflicts ==
    /\ key \in {"dependencies", "devDependencies"}
    /\ \E checked \in OptionalLists, other \in OtherLists :
          config = IF key = "dependencies"
                   THEN [dependencies |-> checked, devDependencies |-> other]
                   ELSE [dependencies |-> other, devDependencies |-> checked]
    /\ packageJson \in [dependencies : ManifestDependencies,
                        devDependencies : ManifestDevDependencies]
    /\ conflicts = Pending
    /\ version = Idle /\ parsed = Idle
    /\ cmpCurrent = Idle /\ cmpNext = Idle /\ cmpResult = Idle
    /\ initPromise = Idle /\ fetches = Idle /\ calls = Idle
    /\ callsMade = Idle
    /\ ScoreIdle /\ EmitterIdle /\ ListIdle

GetConflictingDeps ==
    /\ conflicts = Pending
    /\ conflicts' = getConflictingDeps(config, packageJson, key)
    /\ UNCHANGED <<parseVars, compareVars, config, packageJson, key,
                   searchVars, restVars>>

NextConflicts == GetConflictingDeps

SpecConflicts == InitConflicts /\ [][NextConflicts]_vars

----------------------------------------------------------------------------
(* initEmbeddings and searchVectors *)

\* The default of the parameter topK of searchVectors.
DefaultTopK == 3

\* The dot product over the overlapping prefix of the two vectors, summed
\* from position i on.
RECURSIVE DotFrom(_, _, _)
DotFrom(queryVector, vector, i) ==
    IF i > Len(queryVector) \/ i > Len(vector) THEN 0
    ELSE queryVector[i] * vector[i] + DotFrom(queryVector, vector, i + 1)

\* The loop started one position late.
SimilarityFromSecond(queryVector, item) ==
    DotFrom(queryVector, item.vector, 2)

Similarity(queryVector, item) == DotFrom(queryVector, item.vector, 1)

\* { ...item, similarity }
Scored(queryVector, item) ==
    [name |-> item.name, vector |-> item.vector,
     similarity |-> Similarity(queryVector, item)]

\* The insertion of a sort that puts x before the items of equal similarity.
RECURSIVE InsertBeforeEqual(_, _)
InsertBeforeEqual(sorted, x) ==
    IF sorted = <<>> THEN <<x>>
    ELSE IF x.similarity >= Head(sorted).similarity THEN <<x>> \o sorted
    ELSE <<Head(sorted)>> \o InsertBeforeEqual(Tail(sorted), x)

\* x put into a list sorted by non-increasing similarity, after the items
\* that compare not greater: the sort is stable.
RECURSIVE InsertBySimilarity(_, _)
InsertBySimilarity(sorted, x) ==
    IF sorted = <<>> THEN <<x>>
    ELSE IF x.similarity > Head(sorted).similarity THEN <<x>> \o sorted
    ELSE <<Head(sorted)>> \o InsertBySimilarity(Tail(sorted), x)

\* results.sort((a, b) => b.similarity - a.similarity)
RECURSIVE SortBySimilarity(_)
SortBySimilarity(results) ==
    IF results = <<>> THEN <<>>
    ELSE InsertBySimilarity(
             SortBySimilarity(SubSeq(results, 1, Len(results) - 1)),
             results[Len(results)])

\* Array.prototype.slice(0, end)
SliceFromStart(list, end) ==
    LET stop == IF end < 0 THEN (IF Len(list) + end < 0 THEN 0
                                 ELSE Len(list) + end)
                ELSE IF end > Len(list) THEN Len(list) ELSE end
    IN  SubSeq(list, 1, stop)

\* The steps of searchVectors after the two awaits; indexedData.map throws
\* when the value of the index promise is no array.
SearchResults(indexedData, queryVector, topK) ==
    IF indexedData.kind # "array" THEN Thrown
    ELSE LET results == [i \in 1..Len(indexedData.items) |->
                            Scored(queryVector, indexedData.items[i])]
         IN  Array(SliceFromStart(SortBySimilarity(results), topK))

\* The index after a search had it sorted in place by the query.
IndexSortedInPlace(indexedData, queryVector) ==
    IF indexedData.kind # "array" THEN indexedData
    ELSE LET sorted == SortBySimilarity(
                 [i \in 1..Len(indexedData.items) |->
                     Scored(queryVector, indexedData.items[i])])
         IN  Array([i \in 1..Len(sorted) |->
                       [name |-> sorted[i].name, vector |-> sorted[i].vector]])

\* The loaded index after a search: map builds a new array of new objects
\* and sort and slice work on that array, so the index is as it was.
IndexAfterSearch(indexedData, queryVector) == indexedData

\* if (initPromise), with the variant that tests the loaded index instead.
MemoizedOnceLoaded ==
    initPromise # 0 /\ fetches[initPromise].stage = "fulfilled"

Memoized == initPromise # 0

\* .catch(() => []), with the variant whose handler returns nothing.
CatchValueUndefined == Undefined

CatchValue == Array(<<>>)

\* res.json(): the parsed body, or the catch handler's value when the body is
\* no JSON.
JsonOutcome(body) ==
    IF body.kind = "json" THEN body.value ELSE CatchValue

Callers == {"c1", "c2"}

IdleCall ==
    [pc |-> "idle", fn |-> "none", queryText |-> "", topK |-> 0,
     awaited |-> 0, indexedData |-> Undefined, result |-> Undefined]

\* The synchronous part of initEmbeddings, run by caller c in a call of fn:
\* the memoized promise is returned, or a fetch is issued and its promise
\* stored.
EnterInit(c, fn, queryText, topK) ==
    /\ calls[c].pc \in {"idle", "done"}
    /\ callsMade < MaxCalls
    /\ callsMade' = callsMade + 1
    /\ IF Memoized
       THEN /\ UNCHANGED <<initPromise, fetches>>
            /\ calls' = [calls EXCEPT ![c] =
                   [IdleCall EXCEPT !.pc = "awaitInit", !.fn = fn,
                                    !.queryText = queryText, !.topK = topK,
                                    !.awaited = initPromise]]
       ELSE /\ fetches' = Append(fetches, [stage |-> "inflight",
                                           body |-> Undefined,
                                           value |-> Undefined,
                                           failed |-> FALSE])
            /\ initPromise' = Len(fetches) + 1
            /\ calls' = [calls EXCEPT ![c] =
                   [IdleCall EXCEPT !.pc = "awaitInit", !.fn = fn,
                                    !.queryText = queryText, !.topK = topK,
                                    !.awaited = Len(fetches) + 1]]

\* A call of initEmbeddings() up to its return of the promise.
InitEmbeddings(c) ==
    /\ EnterInit(c, "initEmbeddings", "", 0)
    /\ UNCHANGED <<parseVars, compareVars, conflictVars, restVars>>

\* A call of searchVectors(queryText, topK) up to its first await.
SearchVectors(c, queryText, topK) ==
    /\ EnterInit(c, "searchVectors", queryText, topK)
    /\ UNCHANGED <<parseVars, compareVars, conflictVars, restVars>>

\* The fetch i is answered with a response: .then starts res.json().
FetchResponds(i, body) ==
    /\ fetches[i].stage = "inflight"
    /\ fetches' = [fetches EXCEPT ![i].stage = "response", ![i].body = body]
    /\ UNCHANGED <<parseVars, compareVars, conflictVars, restVars,
                   initPromise, calls, callsMade>>

\* The fetch i is rejected: .then is skipped and .catch fulfils the promise.
FetchRejects(i) ==
    /\ fetches[i].stage = "inflight"
    /\ fetches' = [fetches EXCEPT ![i].stage = "fulfilled",
                                  ![i].value = CatchValue,
                                  ![i].failed = TRUE]
    /\ UNCHANGED <<parseVars, compareVars, conflictVars, restVars,
                   initPromise, calls, callsMade>>

\* res.json() of the fetch i settles and the promise is fulfilled.
JsonSettles(i) ==
    /\ fetches[i].stage = "response"
    /\ fetches' = [fetches EXCEPT ![i].stage = "fulfilled",
                                  ![i].value = JsonOutcome(fetches[i].body),
                                  ![i].failed = (fetches[i].body.kind # "json")]
    /\ UNCHANGED <<parseVars, compareVars, conflictVars, restVars,
                   initPromise, calls, callsMade>>

\* The caller of initEmbeddings receives the value of the promise.
InitEmbeddingsResolves(c) ==
    /\ calls[c].pc = "awaitInit"
    /\ calls[c].fn = "initEmbeddings"
    /\ fetches[calls[c].awaited].stage = "fulfilled"
    /\ calls' = [calls EXCEPT ![c].pc = "done",
                              ![c].result = fetches[calls[c].awaited].value]
    /\ UNCHANGED <<parseVars, compareVars, conflictVars, restVars,
                   initPromise, fetches, callsMade>>

\* searchVectors resumes after await initEmbeddings() and calls the embedder.
SearchVectorsIndexed(c) ==
    /\ calls[c].pc = "awaitInit"
    /\ calls[c].fn = "searchVectors"
    /\ fetches[calls[c].awaited].stage = "fulfilled"
    /\ calls' = [calls EXCEPT ![c].pc = "awaitEmbedder",
                              ![c].indexedData =
                                  fetches[calls[c].awaited].value]
    /\ UNCHANGED <<parseVars, compareVars, conflictVars, restVars,
                   initPromise, fetches, callsMade>>

\* searchVectors resumes after await embedder(...) and runs to its end.
SearchVectorsScored(c, queryVector) ==
    /\ calls[c].pc = "awaitEmbedder"
    /\ calls' = [calls EXCEPT ![c].pc = "done",
                              ![c].result =
                                  SearchResults(calls[c].indexedData,
                                                queryVector, calls[c].topK)]
    /\ fetches' = [fetches EXCEPT ![calls[c].awaited].value =
                       IndexAfterSearch(calls[c].indexedData, queryVector)]
    /\ UNCHANGED <<parseVars, compareVars, conflictVars, restVars,
                   initPromise, callsMade>>

----------------------------------------------------------------------------
(* The embeddings index: calls of initEmbeddings and searchVectors *)

QueryTexts == {"alpha", "beta"}

\* The embedder: a unit vector for each query text.
Embed(queryText) == IF queryText = "alpha" THEN <<1, 0>> ELSE <<0, 1>>

TopKs == {-1, 0, 1, DefaultTopK}

ItemA == [name |-> "A", vector |-> <<1, 0>>]
ItemB == [name |-> "B", vector |-> <<0, 1>>]
ItemC == [name |-> "C", vector |-> <<1>>]

\* The bodies the index URL may answer with.
ResponseBodies ==
    {[kind |-> "notjson", value |-> Undefined],
     [kind |-> "json", value |-> Object(EmptyProps)],
     [kind |-> "json", value |-> Array(<<>>)],
     [kind |-> "json", value |-> Array(<<ItemB, ItemA, ItemC>>)]}

InitSearch ==
    /\ initPromise = 0
    /\ fetches = <<>>
    /\ calls = [c \in Callers |-> IdleCall]
    /\ callsMade = 0
    /\ version = Idle /\ parsed = Idle
    /\ cmpCurrent = Idle /\ cmpNext = Idle /\ cmpResult = Idle
    /\ config = Idle /\ packageJson = Idle /\ key = Idle /\ conflicts = Idle
    /\ ScoreIdle /\ EmitterIdle /\ ListIdle

NextSearch ==
    \/ \E c \in Callers : InitEmbeddings(c)
    \/ \E c \in Callers, q \in QueryTexts, k \in TopKs : SearchVectors(c, q, k)
    \/ \E i \in 1..Len(fetches), body \in ResponseBodies : FetchResponds(i, body)
    \/ \E i \in 1..Len(fetches) : FetchRejects(i)
    \/ \E i \in 1..Len(fetches) : JsonSettles(i)
    \/ \E c \in Callers : InitEmbeddingsResolves(c)
    \/ \E c \in Callers : SearchVectorsIndexed(c)
    \/ \E c \in Callers : SearchVectorsScored(c, Embed(calls[c].queryText))

SpecSearch == InitSearch /\ [][NextSearch]_vars

----------------------------------------------------------------------------
(* The scoring and ranking of searchVectors on a loaded index *)

\* Names of registry entries: the item at position i of an index is named
\* EntryNames[i].
EntryNames ==
    <<"biome-config", "consume-generator", "typed-event-emitter",
      "CLAUDE.md (general)", "CLAUDE.md (webapp)",
      "gueterbahnhof build&deploy">>

VectorComponents == {0, 1}

RECURSIVE VectorsOfLen(_)
VectorsOfLen(n) ==
    IF n = 0 THEN {<<>>}
    ELSE {Append(v, x) : v \in VectorsOfLen(n - 1), x \in VectorComponents}

Vectors == UNION {VectorsOfLen(n) : n \in 0..MaxVecLen}

RECURSIVE VectorListsOfLen(_)
VectorListsOfLen(n) ==
    IF n = 0 THEN {<<>>}
    ELSE {Append(l, v) : l \in VectorListsOfLen(n - 1), v \in Vectors}

\* The index whose items have the vectors of the list, in order.
IndexOf(vectorList) ==
    Array([i \in 1..Len(vectorList) |->
              [name |-> EntryNames[i], vector |-> vectorList[i]]])

Indexes ==
    {IndexOf(l) : l \in UNION {VectorListsOfLen(n) : n \in 0..MaxIndexLen}}

InitScore ==
    /\ scoreIndex \in Indexes
    /\ scoreQuery \in Vectors
    /\ scoreTopK \in (-1)..(MaxIndexLen + 1)
    /\ scoreResults = Pending
    /\ ParseIdle /\ CompareIdle /\ ConflictsIdle /\ SearchIdle
    /\ EmitterIdle /\ ListIdle

\* searchVectors from its second await on, on the index scoreIndex and the
\* query embedding scoreQuery.
ScoreVectors ==
    /\ scoreResults = Pending
    /\ scoreResults' = SearchResults(scoreIndex, scoreQuery, scoreTopK)
    /\ scoreIndex' = IndexAfterSearch(scoreIndex, scoreQuery)
    /\ UNCHANGED <<parseVars, compareVars, conflictVars, searchVars,
                   scoreQuery, scoreTopK, emitterVars, listVars>>

NextScore == ScoreVectors

SpecScore == InitScore /\ [][NextScore]_vars

----------------------------------------------------------------------------
(* The typed event emitter: on, off, emit and the abort of a signal *)

\* The values of the type field of the schema's events.
Events == {"ping", "pong"}

\* The listener functions a caller has at hand.
ListenerFns == {"f", "g"}

Signals == {"s1"}

\* The signal argument left out.
NoSignal == "none"

\* The data given to emit: an event of the schema, or data that the schema
\* rejects.
InvalidData == [valid |-> FALSE, type |-> "none"]
EmitData == {[valid |-> TRUE, type |-> e] : e \in Events} \cup {InvalidData}

NoEmit == [seq |-> 0, event |-> "none", invoked |-> <<>>, threw |-> FALSE]

\* The last position of x in the list, 0 when it is not in it.
LastIndexOf(list, x) ==
    IF \E i \in 1..Len(list) : list[i] = x
    THEN CHOOSE i \in 1..Len(list) :
             list[i] = x /\ \A j \in (i + 1)..Len(list) : list[j] # x
    ELSE 0

RemoveAt(list, i) ==
    IF i = 0 THEN list
    ELSE SubSeq(list, 1, i - 1) \o SubSeq(list, i + 1, Len(list))

\* EventEmitter.off(event, listener) on the list of one event: the most
\* recently added instance of the listener is removed.
RemoveListener(list, listener) == RemoveAt(list, LastIndexOf(list, listener))

\* The abort handlers of a signal run in the order they were added; each
\* is () => emitter.off(event, listener).
RECURSIVE RunAbortHandlers(_, _)
RunAbortHandlers(ls, handlers) ==
    IF handlers = <<>> THEN ls
    ELSE LET h == Head(handlers)
         IN  RunAbortHandlers(
                 [ls EXCEPT ![h.event] = RemoveListener(@, h.listener)],
                 Tail(handlers))

\* The last registration of the listener for the event among the calls of
\* on not yet undone by a call of off.
LastRegistration(regs, event, listener) ==
    IF \E i \in 1..Len(regs) :
           regs[i].event = event /\ regs[i].listener = listener
    THEN CHOOSE i \in 1..Len(regs) :
             /\ regs[i].event = event /\ regs[i].listener = listener
             /\ \A j \in (i + 1)..Len(regs) :
                   ~(regs[j].event = event /\ regs[j].listener = listener)
    ELSE 0

InitEmitter ==
    /\ listeners = [e \in Events |-> <<>>]
    /\ aborted = [s \in Signals |-> FALSE]
    /\ abortHandlers = [s \in Signals |-> <<>>]
    /\ lastEmit = NoEmit
    /\ registered = <<>>
    /\ removed = {}
    /\ emitterOps = 0
    /\ ParseIdle /\ CompareIdle /\ ConflictsIdle /\ SearchIdle
    /\ ScoreIdle /\ ListIdle

\* on(event, listener, signal): the listener is added, and with a signal an
\* abort handler is added to the signal, aborted or not.
On(event, listener, signal) ==
    /\ emitterOps < MaxOps
    /\ emitterOps' = emitterOps + 1
    /\ listeners' = [listeners EXCEPT ![event] = Append(@, listener)]
    /\ abortHandlers' =
          IF signal = NoSignal THEN abortHandlers
          ELSE [abortHandlers EXCEPT ![signal] =
                   Append(@, [event |-> event, listener |-> listener])]
    /\ registered' = Append(registered, [event |-> event,
                                         listener |-> listener,
                                         signal |-> signal])
    /\ removed' = removed \ {<<event, listener>>}
    /\ UNCHANGED <<parseVars, compareVars, conflictVars, searchVars,
                   scoreVars, listVars, aborted, lastEmit>>

\* off(event, listener)
Off(event, listener) ==
    /\ emitterOps < MaxOps
    /\ emitterOps' = emitterOps + 1
    /\ listeners' = [listeners EXCEPT ![event] = RemoveListener(@, listener)]
    /\ registered' =
          RemoveAt(registered, LastRegistration(registered, event, listener))
    /\ removed' =
          IF LastRegistration(registered', event, listener) = 0
          THEN removed \cup {<<event, listener>>}
          ELSE removed
    /\ UNCHANGED <<parseVars, compareVars, conflictVars, searchVars,
                   scoreVars, listVars, aborted, abortHandlers, lastEmit>>

\* The signal is aborted by its controller: the abort event is dispatched
\* once, to the handlers added before it.
Abort(signal) ==
    /\ emitterOps < MaxOps
    /\ ~aborted[signal]
    /\ emitterOps' = emitterOps + 1
    /\ aborted' = [aborted EXCEPT ![signal] = TRUE]
    /\ listeners' = RunAbortHandlers(listeners, abortHandlers[signal])
    /\ UNCHANGED <<parseVars, compareVars, conflictVars, searchVars,
                   scoreVars, listVars, abortHandlers, lastEmit, registered,
                   removed>>

\* emit(data): schema.parse throws on data that is no event of the schema,
\* else the listeners of parsed.type are invoked in the order of the list.
Emit(data) ==
    /\ emitterOps < MaxOps
    /\ emitterOps' = emitterOps + 1
    /\ lastEmit' =
          IF data.valid
          THEN [seq |-> emitterOps + 1, event |-> data.type,
                invoked |-> listeners[data.type], threw |-> FALSE]
          ELSE [seq |-> emitterOps + 1, event |-> "none",
                invoked |-> <<>>, threw |-> TRUE]
    /\ UNCHANGED <<parseVars, compareVars, conflictVars, searchVars,
                   scoreVars, listVars, listeners, aborted, abortHandlers,
                   registered, removed>>

NextEmitter ==
    \/ \E e \in Events, l \in ListenerFns, s \in Signals \cup {NoSignal} :
          On(e, l, s)
    \/ \E e \in Events, l \in ListenerFns : Off(e, l)
    \/ \E s \in Signals : Abort(s)
    \/ \E data \in EmitData : Emit(data)

SpecEmitter == InitEmitter /\ [][NextEmitter]_vars

----------------------------------------------------------------------------
(* parseList *)

Bool(flag) == [kind |-> "boolean", flag |-> flag]

Null == [kind |-> "null"]

\* Number.NaN
NaN == [kind |-> "NaN"]

\* The schemas: z.number(), z.string(), z.boolean(), z.null() and
\* z.coerce.boolean().
Schemas == {"number", "string", "boolean", "null", "coerceBoolean"}

\* The elements of a list.
ListValues ==
    {Number(0), Number(1), NaN, Str(<<>>), Str(<<"a">>),
     Bool(FALSE), Bool(TRUE), Null, Undefined}

\* Boolean(value), which is also the condition of an if statement on the
\* value.
Truthy(v) ==
    IF v.kind = "number" THEN v.value # 0
    ELSE IF v.kind = "string" THEN v.chars # <<>>
    ELSE IF v.kind = "boolean" THEN v.flag
    ELSE v.kind \notin {"null", "undefined", "NaN"}

Success(data) == [success |-> TRUE, data |-> data]

\* A failed safeParse has no data property.
Failure == [success |-> FALSE, data |-> Undefined]

\* schema.safeParse(value): z.coerce.boolean() takes every value and gives
\* Boolean(value); the other schemas take the values of their type and give
\* them back, and z.number() rejects NaN.
SafeParse(schema, v) ==
    IF schema = "coerceBoolean" THEN Success(Bool(Truthy(v)))
    ELSE IF v.kind = schema THEN Success(v) ELSE Failure

\* The callback of the reduce of parseList.
ParseListStep(schema, acc, curr) ==
    LET data == SafeParse(schema, curr).data
    IN  IF Truthy(data) THEN Append(acc, data) ELSE acc

RECURSIVE ParseListReduce(_, _, _)
ParseListReduce(schema, acc, list) ==
    IF list = <<>> THEN acc
    ELSE ParseListReduce(schema, ParseListStep(schema, acc, Head(list)),
                         Tail(list))

parseList(schema, list) == Array(ParseListReduce(schema, <<>>, list.items))

RECURSIVE ValueListsOfLen(_)
ValueListsOfLen(n) ==
    IF n = 0 THEN {<<>>}
    ELSE {Append(l, v) : l \in ValueListsOfLen(n - 1), v \in ListValues}

ValueLists == UNION {ValueListsOfLen(n) : n \in 0..MaxListLen}

InitList ==
    /\ listSchema \in Schemas
    /\ listInput \in {Array(l) : l \in ValueLists}
    /\ listOutput = Pending
    /\ ParseIdle /\ CompareIdle /\ ConflictsIdle /\ SearchIdle
    /\ ScoreIdle /\ EmitterIdle

\* A call parseList(listSchema, listInput): reduce reads the list and pushes
\* to its own accumulator.
ParseList ==
    /\ listOutput = Pending
    /\ listOutput' = parseList(listSchema, listInput)
    /\ UNCHANGED <<parseVars, compareVars, conflictVars, searchVars,
                   scoreVars, emitterVars, listSchema, listInput>>

NextList == ParseList

SpecParseList == InitList /\ [][NextList]_vars

----------------------------------------------------------------------------
(* Properties of the comparator, under SpecCompare *)

Compared == cmpResult.kind = "number"

BothStructured == cmpCurrent # Latest /\ cmpNext # Latest

\* C1 (as stated): compare(Latest, Latest) is 0, compare(current = Latest,
\* next = v) is 1 and compare(current = v, next = Latest) is -1 for every
\* structured v.
C1_SentinelAsStated ==
    Compared =>
        /\ (cmpCurrent = Latest /\ cmpNext = Latest) => cmpResult.value = 0
        /\ (cmpCurrent = Latest /\ cmpNext # Latest) => cmpResult.value = 1
        /\ (cmpCurrent # Latest /\ cmpNext = Latest) => cmpResult.value = -1

\* C1 (amended): compare(Latest, Latest) is 0, compare(current = Latest,
\* next = v) is -1 and compare(current = v, next = Latest) is 1 for every
\* structured v.
C1_Sentinel ==
    Compared =>
        /\ (cmpCurrent = Latest /\ cmpNext = Latest) => cmpResult.value = 0
        /\ (cmpCurrent = Latest /\ cmpNext # Latest) => cmpResult.value = -1
        /\ (cmpCurrent # Latest /\ cmpNext = Latest) => cmpResult.value = 1

C1_Witness ==
    /\ Compared
    /\ cmpCurrent = Latest
    /\ cmpNext = VersionRecord("minor", 1, 2, 0)
    /\ cmpResult.value = -1

\* The components of next that current.modifier tolerates a change in:
\* patch tolerates the patch number; minor tolerates minor and patch; major
\* tolerates every component.
WithinTolerance(current, next) ==
    CASE current.modifier = "patch" ->
            current.major = next.major /\ current.minor = next.minor
      [] current.modifier = "minor" -> current.major = next.major
      [] current.modifier = "major" -> TRUE

\* C3: on two structured specs the result of compareVersions is 0 exactly
\* when next differs from current only in components that current.modifier
\* tolerates, and non-zero otherwise.
C3_Tolerance ==
    (Compared /\ BothStructured) =>
        ((cmpResult.value = 0) <=> WithinTolerance(cmpCurrent, cmpNext))

\* C9: on two structured specs compareVersions returns the major difference
\* when it is not 0 or current.modifier is major, else the minor difference
\* when it is not 0 or current.modifier is minor, else the patch difference;
\* a major-modifier current yields 0 for every next of the same major, and
\* the result does not depend on next.modifier.
C9_Cascade ==
    (Compared /\ BothStructured) =>
        LET r == cmpResult.value
            sameMajor == cmpNext.major = cmpCurrent.major
            sameMinor == cmpNext.minor = cmpCurrent.minor
        IN  /\ ~sameMajor => r = cmpNext.major - cmpCurrent.major
            /\ (sameMajor /\ cmpCurrent.modifier = "major") => r = 0
            /\ (sameMajor /\ cmpCurrent.modifier # "major" /\ ~sameMinor)
                    => r = cmpNext.minor - cmpCurrent.minor
            /\ (sameMajor /\ sameMinor /\ cmpCurrent.modifier = "minor")
                    => r = 0
            /\ (sameMajor /\ sameMinor /\ cmpCurrent.modifier = "patch")
                    => r = cmpNext.patch - cmpCurrent.patch
            /\ \A m \in Modifiers :
                    compareVersions(cmpCurrent,
                                    [cmpNext EXCEPT !.modifier = m]) = r

C9_Witness ==
    /\ Compared
    /\ cmpCurrent = VersionRecord("major", 1, 0, 0)
    /\ cmpNext = VersionRecord("patch", 1, 2, 1)
    /\ cmpResult.value = 0

----------------------------------------------------------------------------
(* Properties of the parser, under SpecParse *)

Parsed == parsed # Pending

HasDigit(s) == \E i \in 1..Len(s) : IsDigit(s[i])

\* C2: for every structured spec s with non-negative integer components of
\* any number of digits, parsing the text formed from s returns s.
C2_RoundTrip ==
    Parsed =>
        \A s \in RoundTripSpecs : (version = Stringify(s)) => parsed = s

\* C10: for every text that matches the version pattern the modifier is
\* patch when the non-digit prefix is "~", minor when it is "^" and major
\* for every other prefix, the empty one included; "latest" parses to the
\* Latest sentinel, "^1.2.3" to {minor,1,2,3}, "~0.0.1" to {patch,0,0,1},
\* "1.2.3" to {major,1,2,3}, and a string with no digits fails to parse.
C10_PrefixMapping ==
    Parsed =>
        /\ version = STR_latest => parsed = Latest
        /\ version = <<"^", "1", ".", "2", ".", "3">>
                => parsed = VersionRecord("minor", 1, 2, 3)
        /\ version = <<"~", "0", ".", "0", ".", "1">>
                => parsed = VersionRecord("patch", 0, 0, 1)
        /\ version = <<"1", ".", "2", ".", "3">>
                => parsed = VersionRecord("major", 1, 2, 3)
        /\ ~HasDigit(version) /\ version # STR_latest => parsed = Undefined
        /\ (version # STR_latest /\ VersionMatch(version).matched) =>
                LET prefix == VersionMatch(version).prefix
                IN  /\ parsed.kind = "spec"
                    /\ parsed.modifier =
                          (IF prefix = <<"~">> THEN "patch"
                           ELSE IF prefix = <<"^">> THEN "minor"
                           ELSE "major")

\* C11: for every input string parseVersion returns exactly one of the Latest
\* sentinel, a complete record whose modifier is patch, minor or major and
\* whose major, minor and patch are non-negative integers, or nothing; it
\* never returns a record with a missing or non-numeric component.
C11_Total ==
    Parsed =>
        \/ parsed = Latest
        \/ parsed = Undefined
        \/ /\ DOMAIN parsed = {"kind", "modifier", "major", "minor", "patch"}
           /\ parsed.kind = "spec"
           /\ parsed.modifier \in Modifiers
           /\ parsed.major \in Nat
           /\ parsed.minor \in Nat
           /\ parsed.patch \in Nat

C11_Witness ==
    /\ version = <<"^", "1", ".", "2", ".", "3">>
    /\ parsed = VersionRecord("minor", 1, 2, 3)

----------------------------------------------------------------------------
(* Properties of the conflict detector, under SpecConflicts *)

Called == conflicts # Pending

CheckedField == Field(config, key)

CheckedTokens == IF CheckedField = Undefined THEN <<>> ELSE CheckedField.items

\* The names with an entry in the manifest's dependencies or devDependencies.
InstalledNames ==
    (IF packageJson.dependencies.kind = "object"
     THEN DOMAIN packageJson.dependencies.props ELSE {})
    \cup (IF packageJson.devDependencies.kind = "object"
          THEN DOMAIN packageJson.devDependencies.props ELSE {})

\* token is the dependency token of package name n: n alone or n@versionSpec.
IsTokenOf(token, n) ==
    token = n \/ \E v \in VersionSpecs : token = Token(n, v)

\* A version text that is "latest" or a semantic version.
WellFormed(text) == parseVersion(text) # Undefined

\* C4: getConflictingDeps returns the empty list, not an absent value, when
\* the entry has no list under the requested field, and also when none of
\* the entry's dependency names is in the manifest's dependencies or
\* devDependencies.
C4_EmptyList ==
    Called =>
        LET noneInstalled ==
                \A i \in 1..Len(CheckedTokens) : \A n \in PackageNames :
                    IsTokenOf(CheckedTokens[i], n) => n \notin InstalledNames
        IN  (CheckedField = Undefined \/ noneInstalled)
                => conflicts = Array(<<>>)

\* C5: getConflictingDeps never throws, and a token whose required version
\* text is malformed, or whose installed version string is malformed,
\* produces no conflict record (a required "latest" is left out of the
\* second part: it is reported whatever is installed).
C5_NeverFails ==
    Called =>
        /\ conflicts # Thrown
        /\ conflicts.kind = "array" =>
              \A i \in 1..Len(conflicts.items) :
                  LET r == conflicts.items[i]
                  IN  /\ WellFormed(r.next)
                      /\ r.next # STR_latest =>
                            /\ r.current.kind = "string"
                            /\ WellFormed(r.current.chars)

\* C6: for every token "<packageName>@<versionSpec>", names that contain "@"
\* included, the name looked up is <packageName> and the required version is
\* <versionSpec>; a token with no "@version" suffix requires "latest".
C6_TokenSplit ==
    Called =>
        \A i \in 1..Len(CheckedTokens) :
            LET token == CheckedTokens[i]
            IN  \A n \in PackageNames :
                    /\ token = n =>
                          /\ TokenName(token) = n
                          /\ TokenVersion(token) = STR_latest
                    /\ \A v \in VersionSpecs :
                          token = Token(n, v) =>
                              /\ TokenName(token) = n
                              /\ TokenVersion(token) = v

\* The version string the manifest holds for an installed name, the one of
\* devDependencies when the name is in both maps.
InstalledString(n) ==
    IF HasOwn(packageJson.devDependencies, n)
    THEN packageJson.devDependencies.props[n]
    ELSE packageJson.dependencies.props[n]

\* Number of positions of the sequence seq whose element satisfies Test.
CountWhere(seq, Test(_)) == Cardinality({i \in 1..Len(seq) : Test(seq[i])})

ReturnedList == Called /\ conflicts.kind = "array"

\* C12: every token whose name is installed in the manifest and whose
\* required version is "latest", written or defaulted, appends exactly one
\* record {name, current: installed version string, next: "latest"},
\* whatever the installed version is.
C12_LatestAlwaysReported ==
    ReturnedList =>
        \A n \in InstalledNames :
            LET IsLatestToken(t) ==
                    TokenName(t) = n /\ TokenVersion(t) = STR_latest
                IsLatestRecord(r) ==
                    r = ConflictRecord(n, Str(InstalledString(n)), STR_latest)
            IN  CountWhere(conflicts.items, IsLatestRecord)
                    = CountWhere(CheckedTokens, IsLatestToken)

\* The text before the first "." of a version text.
LeadingSegment(text) == SubSeq(text, 1, Min({i \in 1..(Len(text) + 1) :
                                    i = Len(text) + 1 \/ text[i] = "."}) - 1)

\* C13: for an installed dependency whose required version is not "latest"
\* a record {name, current, next} is appended if and only if the text of the
\* installed version before its first "." differs, as a raw string, from
\* the text of the required version before its first "."; "react@^18.0.0"
\* against installed "17.0.2" yields exactly
\* {name: "react", current: "17.0.2", next: "^18.0.0"}.
C13_MajorSegments ==
    ReturnedList =>
        /\ \A n \in InstalledNames : \A v \in VersionSpecs \ {STR_latest} :
              LET IsToken(t) == TokenName(t) = n /\ TokenVersion(t) = v
                  IsRecord(r) ==
                      r = ConflictRecord(n, Str(InstalledString(n)), v)
              IN  CountWhere(conflicts.items, IsRecord) =
                      IF LeadingSegment(InstalledString(n)) # LeadingSegment(v)
                      THEN CountWhere(CheckedTokens, IsToken)
                      ELSE 0
        /\ (/\ CheckedTokens = <<Token(STR_react, STR_caret_18_0_0)>>
            /\ STR_react \in InstalledNames
            /\ InstalledString(STR_react) = STR_17_0_2) =>
                conflicts.items = <<ConflictRecord(STR_react, Str(STR_17_0_2),
                                                   STR_caret_18_0_0)>>

\* C14: the installed version of a name is taken from the union of the
\* manifest's dependencies and devDependencies, the devDependencies value
\* winning when the name is in both; a name found in neither map is skipped
\* and contributes no record, whichever field of the entry is checked.
C14_ManifestLookup ==
    Called =>
        /\ conflicts # Thrown
        /\ conflicts.kind = "array" =>
              \A i \in 1..Len(conflicts.items) :
                  LET r == conflicts.items[i]
                  IN  /\ r.name \in InstalledNames
                      /\ r.current = Str(InstalledString(r.name))

\* The records of the call on the one-token list <<token>>.
RecordsOfToken(token) ==
    getConflictingDeps([dependencies |-> Array(<<token>>),
                        devDependencies |-> Undefined],
                       packageJson, "dependencies").items

RECURSIVE RecordsInOrder(_, _)
RecordsInOrder(tokens, i) ==
    IF i > Len(tokens) THEN <<>>
    ELSE RecordsOfToken(tokens[i]) \o RecordsInOrder(tokens, i + 1)

\* C15: the returned list holds, in the iteration order of the entry's
\* dependency list, the records of the tokens that conflict, one per
\* occurrence of a token (no deduplication), and the call changes neither
\* the entry nor the manifest.
C15_OrderPreserving ==
    [][(conflicts = Pending /\ conflicts' # Pending) =>
          /\ config' = config
          /\ packageJson' = packageJson
          /\ conflicts'.kind = "array" =>
                conflicts'.items = RecordsInOrder(CheckedTokens, 1)]_vars

C15_Witness ==
    /\ ReturnedList
    /\ CheckedTokens = <<Token(STR_a, STR_2_0_0), Token(STR_a, STR_2_0_0)>>
    /\ conflicts.items =
          <<ConflictRecord(STR_a, Str(STR_1_0_0), STR_2_0_0),
            ConflictRecord(STR_a, Str(STR_1_0_0), STR_2_0_0)>>

----------------------------------------------------------------------------
(* Properties of the embeddings index, under SpecSearch *)

InCall(c) == calls[c].pc # "idle"

\* The fetch behind the promise that caller c awaits or has awaited.
AwaitedFetch(c) == fetches[calls[c].awaited]

\* C7: over every interleaving of initEmbeddings and searchVectors calls,
\* calls started before the fetch has settled and calls made after it has
\* failed included, at most one fetch of the index is issued and every
\* caller awaits the same promise.
C7_SingleFetch ==
    /\ Len(fetches) <= 1
    /\ \A c \in Callers : InCall(c) => calls[c].awaited = initPromise
    /\ \A c, d \in Callers :
          (InCall(c) /\ InCall(d)) => calls[c].awaited = calls[d].awaited

C7_Witness ==
    /\ Len(fetches) = 1
    /\ fetches[1].stage = "inflight"
    /\ calls["c1"].pc = "awaitInit" /\ calls["c1"].fn = "searchVectors"
    /\ calls["c2"].pc = "awaitInit" /\ calls["c2"].fn = "searchVectors"

\* C8: when the fetch of the index fails, by rejection or by a body that is
\* no JSON, initEmbeddings resolves to the empty index and every
\* searchVectors call resolves to the empty list, whatever the query and
\* topK, and does not throw.
C8_FailureYieldsEmpty ==
    \A c \in Callers :
        (/\ InCall(c)
         /\ AwaitedFetch(c).stage = "fulfilled"
         /\ AwaitedFetch(c).failed) =>
            /\ AwaitedFetch(c).value = Array(<<>>)
            /\ calls[c].pc = "awaitEmbedder"
                  => calls[c].indexedData = Array(<<>>)
            /\ calls[c].pc = "done" => calls[c].result = Array(<<>>)

C8_Witness ==
    /\ calls["c1"].pc = "done" /\ calls["c1"].fn = "searchVectors"
    /\ calls["c1"].topK = DefaultTopK
    /\ AwaitedFetch("c1").failed
    /\ AwaitedFetch("c1").body.kind = "notjson"
    /\ calls["c1"].result = Array(<<>>)
    /\ calls["c2"].pc = "done" /\ calls["c2"].fn = "initEmbeddings"
    /\ calls["c2"].result = Array(<<>>)

\* The value the promise of the fetch i was fulfilled with when the index
\* was loaded: the catch handler's value after a rejection, else the outcome
\* of res.json().
LoadedValue(i) ==
    IF fetches[i].body = Undefined THEN CatchValue
    ELSE JsonOutcome(fetches[i].body)

SearchDone(c) == calls[c].fn = "searchVectors" /\ calls[c].pc = "done"

\* C18: the loaded index is what it was when it was loaded, whatever
\* searches have run on it (same items, same order, same names and vectors),
\* and two finished searches on it with the same query embedding and the
\* same topK have equal results.
C18_IndexUnchanged ==
    /\ \A i \in 1..Len(fetches) :
          fetches[i].stage = "fulfilled" => fetches[i].value = LoadedValue(i)
    /\ \A c, d \in Callers :
          (/\ SearchDone(c) /\ SearchDone(d)
           /\ calls[c].awaited = calls[d].awaited
           /\ Embed(calls[c].queryText) = Embed(calls[d].queryText)
           /\ calls[c].topK = calls[d].topK)
              => calls[c].result = calls[d].result

\* Two searches for the same query with the same topK on a loaded 3-item
\* index, with a further call among the calls made.
C18_Witness ==
    /\ callsMade >= 3
    /\ SearchDone("c1") /\ SearchDone("c2")
    /\ calls["c1"].queryText = "alpha" /\ calls["c2"].queryText = "alpha"
    /\ calls["c1"].topK = DefaultTopK /\ calls["c2"].topK = DefaultTopK
    /\ AwaitedFetch("c1").value = Array(<<ItemB, ItemA, ItemC>>)
    /\ calls["c1"].result = calls["c2"].result
    /\ calls["c1"].result =
          Array(<<[name |-> "A", vector |-> <<1, 0>>, similarity |-> 1],
                  [name |-> "C", vector |-> <<1>>, similarity |-> 1],
                  [name |-> "B", vector |-> <<0, 1>>, similarity |-> 0]>>)

----------------------------------------------------------------------------
(* Properties of the scoring and ranking of searchVectors, under SpecScore *)

ScoreReturned == scoreResults # Pending /\ scoreResults.kind = "array"

\* The sum of the products of the first n components of two vectors.
RECURSIVE SumProducts(_, _, _)
SumProducts(a, b, n) ==
    IF n = 0 THEN 0 ELSE SumProducts(a, b, n - 1) + a[n] * b[n]

\* The similarity the contract gives the item of the index for the query.
ExpectedSimilarity(item) ==
    SumProducts(scoreQuery, item.vector,
                Min({Len(scoreQuery), Len(item.vector)}))

\* The position in the index of the item of that name.
PositionOf(name) ==
    CHOOSE i \in 1..Len(scoreIndex.items) : scoreIndex.items[i].name = name

ReportedNames ==
    {scoreResults.items[k].name : k \in 1..Len(scoreResults.items)}

\* C16: every reported entry is an item of the index with the similarity
\* sum_{i < min(len(query), len(vector))} query[i] * vector[i]; the components
\* past the shorter length do not count, an item with an empty vector scores
\* 0, and with topK at least the size of the index every item is reported.
C16_DotProduct ==
    scoreResults # Pending =>
        /\ ScoreReturned
        /\ \A k \in 1..Len(scoreResults.items) :
              LET r == scoreResults.items[k]
              IN  /\ DOMAIN r = {"name", "vector", "similarity"}
                  /\ \E i \in 1..Len(scoreIndex.items) :
                        /\ scoreIndex.items[i].name = r.name
                        /\ scoreIndex.items[i].vector = r.vector
                        /\ r.similarity =
                              ExpectedSimilarity(scoreIndex.items[i])
                  /\ (r.vector = <<>>) => (r.similarity = 0)
        /\ scoreTopK >= Len(scoreIndex.items) =>
              \A i \in 1..Len(scoreIndex.items) :
                  scoreIndex.items[i].name \in ReportedNames

\* A query longer than one item's vector, and an item with an empty vector.
C16_Witness ==
    /\ ScoreReturned
    /\ scoreQuery = <<1, 1>>
    /\ scoreIndex = IndexOf(<<<<>>, <<1>>>>)
    /\ scoreTopK = 2
    /\ scoreResults.items =
          <<[name |-> EntryNames[2], vector |-> <<1>>, similarity |-> 1],
            [name |-> EntryNames[1], vector |-> <<>>, similarity |-> 0]>>

\* C17: for topK >= 0 the result has min(topK, size of the index) entries for
\* distinct items of the index, in non-increasing similarity, entries of equal
\* similarity in the order of the index, and no item left out is ranked
\* before a reported one (greater similarity, or equal similarity and an
\* earlier position).
C17_Ranking ==
    (scoreResults # Pending /\ scoreTopK >= 0) =>
        /\ ScoreReturned
        /\ Len(scoreResults.items) = Min({scoreTopK, Len(scoreIndex.items)})
        /\ \A k \in 1..Len(scoreResults.items) :
              \E i \in 1..Len(scoreIndex.items) :
                  /\ scoreIndex.items[i].name = scoreResults.items[k].name
                  /\ scoreIndex.items[i].vector = scoreResults.items[k].vector
        /\ \A k, l \in 1..Len(scoreResults.items) :
              k < l =>
                  /\ scoreResults.items[k].name # scoreResults.items[l].name
                  /\ scoreResults.items[k].similarity >=
                        scoreResults.items[l].similarity
                  /\ scoreResults.items[k].similarity =
                        scoreResults.items[l].similarity
                        => PositionOf(scoreResults.items[k].name) <
                              PositionOf(scoreResults.items[l].name)
        /\ \A i \in 1..Len(scoreIndex.items) :
              scoreIndex.items[i].name \notin ReportedNames =>
                  \A k \in 1..Len(scoreResults.items) :
                      LET r == scoreResults.items[k]
                          s == ExpectedSimilarity(scoreIndex.items[i])
                      IN  \/ r.similarity > s
                          \/ r.similarity = s /\ PositionOf(r.name) < i

\* The 2-item index of the example: the query equals A's vector and is
\* orthogonal to B's, and search(query, 1) returns [A].
C17_Witness ==
    /\ ScoreReturned
    /\ scoreIndex = IndexOf(<<<<0, 1>>, <<1, 0>>>>)
    /\ scoreQuery = <<1, 0>>
    /\ scoreTopK = 1
    /\ scoreResults.items =
          <<[name |-> EntryNames[2], vector |-> <<1, 0>>, similarity |-> 1]>>

----------------------------------------------------------------------------
(* Properties of the typed event emitter, under SpecEmitter *)

\* The registrations of the listener for the event that no call of off has
\* undone.
Registrations(event, listener) ==
    {i \in 1..Len(registered) :
        registered[i].event = event /\ registered[i].listener = listener}

\* The listener is registered for the event and every registration came
\* with a signal that is now aborted.
Cancelled(event, listener) ==
    /\ Registrations(event, listener) # {}
    /\ \A i \in Registrations(event, listener) :
          /\ registered[i].signal # NoSignal
          /\ aborted[registered[i].signal]

\* C19: an emit invokes no listener whose registrations for the event all
\* came with a signal that is aborted by then, whether the signal was
\* aborted after or before the call of on, and no listener that off has
\* removed and on has not registered again.
C19_Cancellation ==
    [][lastEmit' # lastEmit =>
          \A k \in 1..Len(lastEmit'.invoked) :
              /\ ~Cancelled(lastEmit'.event, lastEmit'.invoked[k])
              /\ <<lastEmit'.event, lastEmit'.invoked[k]>> \notin removed]_vars

----------------------------------------------------------------------------
(* Properties of parseList, under SpecParseList *)

\* The parsed values of the elements of the list that validate against the
\* schema, in the order of the list.
RECURSIVE ValidParsed(_, _)
ValidParsed(schema, list) ==
    IF list = <<>> THEN <<>>
    ELSE LET r == SafeParse(schema, Head(list))
         IN  (IF r.success THEN <<r.data>> ELSE <<>>)
                 \o ValidParsed(schema, Tail(list))

\* C20: parseList returns, in the order of the input, the parsed value of
\* each element that validates against the schema and of no other element,
\* also when the parsed value is 0, the empty string, false or null, and
\* leaves the input list as it was.
C20_ExactlyTheValid ==
    [][(listOutput = Pending /\ listOutput' # Pending) =>
          /\ listInput' = listInput
          /\ listOutput' = Array(ValidParsed(listSchema, listInput.items))]_vars

====
